---- MODULE Spec2Model ----
(***************************************************************************)
(* JWTdecode (src/utils/JWTdecode.py): reads a JWT from standard input,    *)
(* splits it on '.', base64url-decodes and JSON-parses the header and the  *)
(* payload, and prints both together with the raw signature segment.       *)
(*                                                                         *)
(* Text is modelled as Python models it: a str is a sequence of Unicode    *)
(* code points, a bytes object a sequence of integers 0..255.              *)
(***************************************************************************)
EXTENDS Integers, Sequences, FiniteSets

(***************************************************************************)
(* Text helpers                                                            *)
(***************************************************************************)

\* the printable ASCII characters, code points 32..126 in order (the grave
\* accent, which a TLA+ string cannot hold, stands under its name)
Ascii ==
    <<" ","!","\"","#","$","%","&","'","(",")","*","+",",","-",".","/",
      "0","1","2","3","4","5","6","7","8","9",":",";","<","=",">","?",
      "@","A","B","C","D","E","F","G","H","I","J","K","L","M","N","O",
      "P","Q","R","S","T","U","V","W","X","Y","Z","[","\\","]","^","_",
      "grave","a","b","c","d","e","f","g","h","i","j","k","l","m","n","o",
      "p","q","r","s","t","u","v","w","x","y","z","{","|","}","~">>

\* code point of a printable ASCII character
Ord(c) == 31 + CHOOSE i \in 1..Len(Ascii) : Ascii[i] = c

\* the str written with the characters of t
L(t) == [i \in 1..Len(t) |-> Ord(t[i])]

\* Python's  c * n  for a one-character string c
Repeat(c, n) == [i \in 1..n |-> c]

RECURSIVE Decimal(_)
\* Python's  str(n)  for a natural number n
Decimal(n) == IF n < 10 THEN <<48 + n>> ELSE Decimal(n \div 10) \o <<48 + (n % 10)>>

\* one lower-case hexadecimal digit
HexDigit(d) == IF d < 10 THEN 48 + d ELSE 87 + d

\* C's %02x of a byte
Hex2(b) == <<HexDigit(b \div 16), HexDigit(b % 16)>>

\* the result of a library call that may raise: a value or the exception's message
Ok(v) == [ok |-> TRUE, val |-> v, err |-> <<>>, type |-> ""]
Raise(type, msg) == [ok |-> FALSE, val |-> <<>>, err |-> msg, type |-> type]

(***************************************************************************)
(* base64.urlsafe_b64decode, as called at line 21                          *)
(***************************************************************************)

\* string argument should contain only ASCII characters
MsgAsciiOnly ==
    L(<<"s","t","r","i","n","g"," ","a","r","g","u","m","e","n","t"," ","s","h","o",
        "u","l","d"," ","c","o","n","t","a","i","n"," ","o","n","l","y"," ","A","S",
        "C","I","I"," ","c","h","a","r","a","c","t","e","r","s">>)

\* Incorrect padding
MsgIncorrectPadding ==
    L(<<"I","n","c","o","r","r","e","c","t"," ","p","a","d","d","i","n","g">>)

\* Invalid base64-encoded string: number of data characters (
MsgInvalidB64Head ==
    L(<<"I","n","v","a","l","i","d"," ","b","a","s","e","6","4","-","e","n","c","o",
        "d","e","d"," ","s","t","r","i","n","g",":"," ","n","u","m","b","e","r"," ",
        "o","f"," ","d","a","t","a"," ","c","h","a","r","a","c","t","e","r","s"," ",
        "(">>)

\* ) cannot be 1 more than a multiple of 4
MsgInvalidB64Tail ==
    L(<<")"," ","c","a","n","n","o","t"," ","b","e"," ","1"," ","m","o","r","e"," ",
        "t","h","a","n"," ","a"," ","m","u","l","t","i","p","l","e"," ","o","f"," ",
        "4">>)

\* '-' becomes '+' and '_' becomes '/' before the standard alphabet is applied
UrlsafeTranslate(c) == IF c = 45 THEN 43 ELSE IF c = 95 THEN 47 ELSE c

\* the 6-bit value of a character of the standard alphabet, 64 for any other
B64Value(c) ==
    IF c >= 65 /\ c <= 90 THEN c - 65
    ELSE IF c >= 97 /\ c <= 122 THEN c - 71
    ELSE IF c >= 48 /\ c <= 57 THEN c + 4
    ELSE IF c = 43 THEN 62
    ELSE IF c = 47 THEN 63
    ELSE 64

\* the decoding loop's variables before the first character; done is set
\* when the loop is left at a pad sequence
A2bStart == [i |-> 1, quad_pos |-> 0, leftchar |-> 0, pads |-> 0, bin |-> <<>>,
             done |-> FALSE]

\* one turn of the non-strict decoding loop, on the character s[st.i]:
\* characters outside the alphabet are skipped, a pad sequence that completes
\* a quad ends the decoding, padding elsewhere is skipped
A2bStep(s, st) ==
    IF st.done \/ st.i > Len(s) THEN st
    ELSE LET c == s[st.i]
             v == B64Value(c)
             next == [st EXCEPT !.i = @ + 1]
         IN  IF c = 61
             THEN IF st.quad_pos >= 2 /\ st.quad_pos + st.pads + 1 >= 4
                  THEN [st EXCEPT !.done = TRUE]
                  ELSE [next EXCEPT !.pads = IF st.quad_pos >= 2 THEN @ + 1 ELSE @]
             ELSE IF v >= 64 THEN next
             ELSE CASE st.quad_pos = 0 ->
                         [next EXCEPT !.quad_pos = 1, !.leftchar = v, !.pads = 0]
                    [] st.quad_pos = 1 ->
                         [next EXCEPT !.quad_pos = 2, !.leftchar = v % 16, !.pads = 0,
                                      !.bin = Append(@, st.leftchar * 4 + (v \div 16))]
                    [] st.quad_pos = 2 ->
                         [next EXCEPT !.quad_pos = 3, !.leftchar = v % 4, !.pads = 0,
                                      !.bin = Append(@, st.leftchar * 16 + (v \div 4))]
                    [] st.quad_pos = 3 ->
                         [next EXCEPT !.quad_pos = 0, !.leftchar = 0, !.pads = 0,
                                      !.bin = Append(@, st.leftchar * 64 + v)]

RECURSIVE A2bLoop(_, _, _)
\* k turns of the loop from the state st: the first half of them, then the
\* rest from the state they leave
A2bLoop(s, st, k) ==
    IF st.done \/ k = 0 THEN st
    ELSE IF k = 1 THEN A2bStep(s, st)
    ELSE CHOOSE last \in {A2bLoop(s, mid, k - (k \div 2)) :
                            mid \in {A2bLoop(s, st, k \div 2)}} : TRUE

\* binascii.a2b_base64(s): the bytes, or an error for a quad left incomplete
\* at the end of the data
A2bBase64(s) ==
    LET st == A2bLoop(s, A2bStart, Len(s))
    IN  IF st.done \/ st.quad_pos = 0 THEN Ok(st.bin)
        ELSE IF st.quad_pos = 1
             THEN Raise("binascii.Error",
                        MsgInvalidB64Head \o Decimal((Len(st.bin) \div 3) * 4 + 1)
                        \o MsgInvalidB64Tail)
             ELSE Raise("binascii.Error", MsgIncorrectPadding)

\* base64.urlsafe_b64decode(s) for a str s
urlsafe_b64decode(s) ==
    IF \E i \in 1..Len(s) : s[i] > 127
    THEN Raise("ValueError", MsgAsciiOnly)
    ELSE A2bBase64([i \in 1..Len(s) |-> UrlsafeTranslate(s[i])])

(***************************************************************************)
(* bytes.decode('utf-8'), as called at line 22                             *)
(***************************************************************************)

\* 'utf-8' codec can't decode byte 0x
MsgUtf8Byte ==
    L(<<"'","u","t","f","-","8","'"," ","c","o","d","e","c"," ","c","a","n","'","t",
        " ","d","e","c","o","d","e"," ","b","y","t","e"," ","0","x">>)

\* 'utf-8' codec can't decode bytes
MsgUtf8Bytes ==
    L(<<"'","u","t","f","-","8","'"," ","c","o","d","e","c"," ","c","a","n","'","t",
        " ","d","e","c","o","d","e"," ","b","y","t","e","s">>)

\*  in position 
MsgInPosition ==
    L(<<" ","i","n"," ","p","o","s","i","t","i","o","n"," ">>)

\* invalid start byte
MsgInvalidStart ==
    L(<<"i","n","v","a","l","i","d"," ","s","t","a","r","t"," ","b","y","t","e">>)

\* invalid continuation byte
MsgInvalidContinuation ==
    L(<<"i","n","v","a","l","i","d"," ","c","o","n","t","i","n","u","a","t","i","o",
        "n"," ","b","y","t","e">>)

\* unexpected end of data
MsgUnexpectedEnd ==
    L(<<"u","n","e","x","p","e","c","t","e","d"," ","e","n","d"," ","o","f"," ","d",
        "a","t","a">>)

IsContinuationByte(b) == b >= 128 /\ b <= 191

\* the UnicodeDecodeError message for the bytes first..last of b
Utf8Error(b, first, last, why) ==
    IF last = first
    THEN Raise("UnicodeDecodeError",
               MsgUtf8Byte \o Hex2(b[first + 1]) \o MsgInPosition \o Decimal(first)
               \o <<58, 32>> \o why)
    ELSE Raise("UnicodeDecodeError",
               MsgUtf8Bytes \o MsgInPosition \o Decimal(first) \o <<45>> \o Decimal(last)
               \o <<58, 32>> \o why)

\* the decoder's state: the 0-based position p, the characters decoded so
\* far, and the error once one is met
Utf8Start == [p |-> 0, out |-> <<>>, failed |-> FALSE, res |-> Ok(<<>>)]

Utf8Fail(st, b, first, last, why) ==
    [st EXCEPT !.failed = TRUE, !.res = Utf8Error(b, first, last, why)]

Utf8Char(st, width, c) == [st EXCEPT !.p = @ + width, !.out = Append(@, c)]

\* strict UTF-8 decoding of the character that starts at the position st.p
Utf8Step(b, st) ==
    LET n   == Len(b)
        p   == st.p
        ch  == b[p + 1]
        ch2 == b[p + 2]
        ch3 == b[p + 3]
        ch4 == b[p + 4]
        left == n - p
    IN  IF st.failed \/ p >= n THEN st
        ELSE IF ch < 128 THEN Utf8Char(st, 1, ch)
        ELSE IF ch < 194 THEN Utf8Fail(st, b, p, p, MsgInvalidStart)
        ELSE IF ch < 224 THEN
            IF left < 2 THEN Utf8Fail(st, b, p, n - 1, MsgUnexpectedEnd)
            ELSE IF ~IsContinuationByte(ch2)
                 THEN Utf8Fail(st, b, p, p, MsgInvalidContinuation)
            ELSE Utf8Char(st, 2, (ch - 192) * 64 + (ch2 - 128))
        ELSE IF ch < 240 THEN
            IF left < 2 THEN Utf8Fail(st, b, p, n - 1, MsgUnexpectedEnd)
            ELSE IF \/ ~IsContinuationByte(ch2)
                    \/ (IF ch2 < 160 THEN ch = 224 ELSE ch = 237)
                 THEN Utf8Fail(st, b, p, p, MsgInvalidContinuation)
            ELSE IF left < 3 THEN Utf8Fail(st, b, p, n - 1, MsgUnexpectedEnd)
            ELSE IF ~IsContinuationByte(ch3)
                 THEN Utf8Fail(st, b, p, p + 1, MsgInvalidContinuation)
            ELSE Utf8Char(st, 3, (ch - 224) * 4096 + (ch2 - 128) * 64 + (ch3 - 128))
        ELSE IF ch < 245 THEN
            IF left < 2 THEN Utf8Fail(st, b, p, n - 1, MsgUnexpectedEnd)
            ELSE IF \/ ~IsContinuationByte(ch2)
                    \/ (IF ch2 < 144 THEN ch = 240 ELSE ch = 244)
                 THEN Utf8Fail(st, b, p, p, MsgInvalidContinuation)
            ELSE IF left < 3 THEN Utf8Fail(st, b, p, n - 1, MsgUnexpectedEnd)
            ELSE IF ~IsContinuationByte(ch3)
                 THEN Utf8Fail(st, b, p, p + 1, MsgInvalidContinuation)
            ELSE IF left < 4 THEN Utf8Fail(st, b, p, n - 1, MsgUnexpectedEnd)
            ELSE IF ~IsContinuationByte(ch4)
                 THEN Utf8Fail(st, b, p, p + 2, MsgInvalidContinuation)
            ELSE Utf8Char(st, 4, (ch - 240) * 262144 + (ch2 - 128) * 4096
                                 + (ch3 - 128) * 64 + (ch4 - 128))
        ELSE Utf8Fail(st, b, p, p, MsgInvalidStart)

RECURSIVE Utf8Loop(_, _, _)
\* k characters decoded from the state st on: the first half of them, then
\* the rest from the state they leave
Utf8Loop(b, st, k) ==
    IF st.failed \/ k = 0 THEN st
    ELSE IF k = 1 THEN Utf8Step(b, st)
    ELSE CHOOSE last \in {Utf8Loop(b, mid, k - (k \div 2)) :
                            mid \in {Utf8Loop(b, st, k \div 2)}} : TRUE

\* decoded_bytes.decode('utf-8')
utf8_decode(b) ==
    LET st == Utf8Loop(b, Utf8Start, Len(b))
    IN  IF st.failed THEN st.res ELSE Ok(st.out)

(***************************************************************************)
(* json.loads, as called at line 23.  A Python value is a record: t is its *)
(* type, s its text (a str's characters, a number's digits, a dict entry's *)
(* key) and items its members.                                             *)
(***************************************************************************)

\* Unexpected UTF-8 BOM (decode using utf-8-sig)
MsgBom ==
    L(<<"U","n","e","x","p","e","c","t","e","d"," ","U","T","F","-","8"," ","B","O",
        "M"," ","(","d","e","c","o","d","e"," ","u","s","i","n","g"," ","u","t","f",
        "-","8","-","s","i","g",")">>)
\* Expecting value
MsgExpectingValue ==
    L(<<"E","x","p","e","c","t","i","n","g"," ","v","a","l","u","e">>)
\* Extra data
MsgExtraData ==
    L(<<"E","x","t","r","a"," ","d","a","t","a">>)
\* Expecting property name enclosed in double quotes
MsgPropertyName ==
    L(<<"E","x","p","e","c","t","i","n","g"," ","p","r","o","p","e","r","t","y"," ",
        "n","a","m","e"," ","e","n","c","l","o","s","e","d"," ","i","n"," ","d","o",
        "u","b","l","e"," ","q","u","o","t","e","s">>)
\* Expecting ':' delimiter
MsgColon ==
    L(<<"E","x","p","e","c","t","i","n","g"," ","'",":","'"," ","d","e","l","i","m",
        "i","t","e","r">>)
\* Expecting ',' delimiter
MsgComma ==
    L(<<"E","x","p","e","c","t","i","n","g"," ","'",",","'"," ","d","e","l","i","m",
        "i","t","e","r">>)
\* Unterminated string starting at
MsgUnterminated ==
    L(<<"U","n","t","e","r","m","i","n","a","t","e","d"," ","s","t","r","i","n","g",
        " ","s","t","a","r","t","i","n","g"," ","a","t">>)
\* Invalid control character at
MsgControl ==
    L(<<"I","n","v","a","l","i","d"," ","c","o","n","t","r","o","l"," ","c","h","a",
        "r","a","c","t","e","r"," ","a","t">>)
\* Invalid \escape
MsgEscape ==
    L(<<"I","n","v","a","l","i","d"," ","\\","e","s","c","a","p","e">>)
\* Invalid \uXXXX escape
MsgUEscape ==
    L(<<"I","n","v","a","l","i","d"," ","\\","u","X","X","X","X"," ","e","s","c","a",
        "p","e">>)
\* : line 
MsgLine ==
    L(<<":"," ","l","i","n","e"," ">>)
\*  column 
MsgColumn ==
    L(<<" ","c","o","l","u","m","n"," ">>)
\*  (char 
MsgChar ==
    L(<<" ","(","c","h","a","r"," ">>)
\* null
TxtNull ==
    L(<<"n","u","l","l">>)
\* true
TxtTrue ==
    L(<<"t","r","u","e">>)
\* false
TxtFalse ==
    L(<<"f","a","l","s","e">>)
\* NaN
TxtNaN ==
    L(<<"N","a","N">>)
\* Infinity
TxtInfinity ==
    L(<<"I","n","f","i","n","i","t","y">>)
\* -Infinity
TxtNegInfinity ==
    L(<<"-","I","n","f","i","n","i","t","y">>)
PyNone == [t |-> "none", s |-> <<>>, items |-> <<>>]
PyBool(b) == [t |-> IF b THEN "true" ELSE "false", s |-> <<>>, items |-> <<>>]
PyInt(digits) == [t |-> "int", s |-> digits, items |-> <<>>]
PyFloat(text) == [t |-> "float", s |-> text, items |-> <<>>]
PyStr(chars) == [t |-> "str", s |-> chars, items |-> <<>>]
PyList(vs) == [t |-> "list", s |-> <<>>, items |-> vs]
PyDict(entries) == [t |-> "dict", s |-> <<>>, items |-> entries]
DictEntry(k, v) == [t |-> "entry", s |-> k, items |-> <<v>>]

\* d[k] = v on the entries of a dict: a key met again keeps its place and
\* takes the new value
DictSet(entries, k, v) ==
    IF \E n \in 1..Len(entries) : entries[n].s = k
    THEN [n \in 1..Len(entries) |->
             IF entries[n].s = k THEN DictEntry(k, v) ELSE entries[n]]
    ELSE Append(entries, DictEntry(k, v))

\* a scanner's result: the value and the position after it, or the message
\* and the position of a JSONDecodeError
Scanned(v, e) == [ok |-> TRUE, val |-> v, end |-> e, msg |-> <<>>]
Fail(m, p) == [ok |-> FALSE, val |-> PyNone, end |-> p, msg |-> m]

\* does the text w stand in s at the 0-based position i
Matches(s, i, w) == i + Len(w) <= Len(s) /\ \A n \in 1..Len(w) : s[i + n] = w[n]

IsJsonWs(c) == c \in {32, 9, 10, 13}
IsDigit(c) == c >= 48 /\ c <= 57
IsHex(c) == IsDigit(c) \/ (c >= 97 /\ c <= 102) \/ (c >= 65 /\ c <= 70)
HexValue(c) == IF IsDigit(c) THEN c - 48 ELSE IF c >= 97 THEN c - 87 ELSE c - 55

RECURSIVE SkipWs(_, _)
SkipWs(s, i) == IF i < Len(s) /\ IsJsonWs(s[i + 1]) THEN SkipWs(s, i + 1) ELSE i

RECURSIVE SkipDigits(_, _)
SkipDigits(s, i) == IF i < Len(s) /\ IsDigit(s[i + 1]) THEN SkipDigits(s, i + 1) ELSE i

\* the four hexadecimal digits at i..i+3
Hex4(s, i) == HexValue(s[i + 1]) * 4096 + HexValue(s[i + 2]) * 256
              + HexValue(s[i + 3]) * 16 + HexValue(s[i + 4])
IsHex4(s, i) == \A n \in 1..4 : IsHex(s[i + n])

\* the character a one-letter escape stands for, 0 for an unknown one
Unescape(c) ==
    CASE c = 34 -> 34 [] c = 92 -> 92 [] c = 47 -> 47 [] c = 98 -> 8
      [] c = 102 -> 12 [] c = 110 -> 10 [] c = 114 -> 13 [] c = 116 -> 9
      [] OTHER -> 0

RECURSIVE ScanString(_, _, _, _)
\* scanstring (strict): begin is the position of the opening quote, i the
\* position being read, acc the characters read so far
ScanString(s, begin, i, acc) ==
    IF i >= Len(s) THEN Fail(MsgUnterminated, begin)
    ELSE LET c == s[i + 1] IN
         IF c = 34 THEN Scanned(PyStr(acc), i + 1)
         ELSE IF c # 92 THEN
              IF c <= 31 THEN Fail(MsgControl, i)
              ELSE ScanString(s, begin, i + 1, Append(acc, c))
         ELSE IF i + 1 >= Len(s) THEN Fail(MsgUnterminated, begin)
         ELSE IF s[i + 2] # 117 THEN
              IF Unescape(s[i + 2]) = 0 THEN Fail(MsgEscape, i)
              ELSE ScanString(s, begin, i + 2, Append(acc, Unescape(s[i + 2])))
         ELSE IF i + 6 > Len(s) THEN Fail(MsgUEscape, i + 1)
         ELSE IF ~IsHex4(s, i + 2) THEN Fail(MsgUEscape, i + 1)
         ELSE LET u == Hex4(s, i + 2) IN
              IF /\ u >= 55296 /\ u <= 56319
                 /\ i + 12 <= Len(s)
                 /\ s[i + 7] = 92 /\ s[i + 8] = 117
              THEN IF ~IsHex4(s, i + 8) THEN Fail(MsgUEscape, i + 7)
                   ELSE LET u2 == Hex4(s, i + 8) IN
                        IF u2 >= 56320 /\ u2 <= 57343
                        THEN ScanString(s, begin, i + 12,
                                 Append(acc, 65536 + (u - 55296) * 1024 + (u2 - 56320)))
                        ELSE ScanString(s, begin, i + 6, Append(acc, u))
              ELSE ScanString(s, begin, i + 6, Append(acc, u))

\* _match_number: the longest number at start, or no value there
MatchNumber(s, start) ==
    LET n  == Len(s)
        i0 == IF s[start + 1] = 45 THEN start + 1 ELSE start
        i1 == IF i0 >= n THEN -1
              ELSE IF s[i0 + 1] >= 49 /\ s[i0 + 1] <= 57 THEN SkipDigits(s, i0 + 1)
              ELSE IF s[i0 + 1] = 48 THEN i0 + 1
              ELSE -1
        frac == i1 + 1 < n /\ s[i1 + 1] = 46 /\ IsDigit(s[i1 + 2])
        i2 == IF frac THEN SkipDigits(s, i1 + 2) ELSE i1
        e0 == IF i2 + 2 < n /\ s[i2 + 2] \in {45, 43} THEN i2 + 2 ELSE i2 + 1
        e1 == SkipDigits(s, e0)
        exp == i2 + 1 < n /\ s[i2 + 1] \in {101, 69} /\ IsDigit(s[e1])
        i3 == IF exp THEN e1 ELSE i2
        text == SubSeq(s, start + 1, i3)
    IN  IF i1 = -1 THEN Fail(MsgExpectingValue, start)
        ELSE IF frac \/ exp THEN Scanned(PyFloat(text), i3)
        ELSE IF text = <<45, 48>> THEN Scanned(PyInt(<<48>>), i3)
        ELSE Scanned(PyInt(text), i3)

RECURSIVE ScanOnce(_, _)
RECURSIVE ArrayLoop(_, _, _)
RECURSIVE ObjectLoop(_, _, _)

\* the members of an array from the position i of a value on
ArrayLoop(s, i, vs) ==
    LET r == ScanOnce(s, i)
        j == SkipWs(s, r.end)
    IN  IF ~r.ok THEN r
        ELSE IF j < Len(s) /\ s[j + 1] = 93 THEN Scanned(PyList(Append(vs, r.val)), j + 1)
        ELSE IF j >= Len(s) \/ s[j + 1] # 44 THEN Fail(MsgComma, j)
        ELSE ArrayLoop(s, SkipWs(s, j + 1), Append(vs, r.val))

\* the entries of an object from the position i of a key on
ObjectLoop(s, i, entries) ==
    IF i >= Len(s) \/ s[i + 1] # 34 THEN Fail(MsgPropertyName, i)
    ELSE LET k == ScanString(s, i, i + 1, <<>>)
             c == SkipWs(s, k.end)
             r == ScanOnce(s, SkipWs(s, c + 1))
             j == SkipWs(s, r.end)
         IN  IF ~k.ok THEN k
             ELSE IF c >= Len(s) \/ s[c + 1] # 58 THEN Fail(MsgColon, c)
             ELSE IF ~r.ok THEN r
             ELSE IF j < Len(s) /\ s[j + 1] = 125
                  THEN Scanned(PyDict(DictSet(entries, k.val.s, r.val)), j + 1)
             ELSE IF j >= Len(s) \/ s[j + 1] # 44 THEN Fail(MsgComma, j)
             ELSE ObjectLoop(s, SkipWs(s, j + 1), DictSet(entries, k.val.s, r.val))

\* scan_once: the value that starts at the position idx
ScanOnce(s, idx) ==
    IF idx >= Len(s) THEN Fail(MsgExpectingValue, idx)
    ELSE LET c == s[idx + 1] IN
         IF c = 34 THEN ScanString(s, idx, idx + 1, <<>>)
         ELSE IF c = 123 THEN
              LET i == SkipWs(s, idx + 1) IN
              IF i < Len(s) /\ s[i + 1] = 125 THEN Scanned(PyDict(<<>>), i + 1)
              ELSE ObjectLoop(s, i, <<>>)
         ELSE IF c = 91 THEN
              LET i == SkipWs(s, idx + 1) IN
              IF i < Len(s) /\ s[i + 1] = 93 THEN Scanned(PyList(<<>>), i + 1)
              ELSE ArrayLoop(s, i, <<>>)
         ELSE IF Matches(s, idx, TxtNull) THEN Scanned(PyNone, idx + 4)
         ELSE IF Matches(s, idx, TxtTrue) THEN Scanned(PyBool(TRUE), idx + 4)
         ELSE IF Matches(s, idx, TxtFalse) THEN Scanned(PyBool(FALSE), idx + 5)
         ELSE IF Matches(s, idx, TxtNaN) THEN Scanned(PyFloat(TxtNaN), idx + 3)
         ELSE IF Matches(s, idx, TxtInfinity) THEN Scanned(PyFloat(TxtInfinity), idx + 8)
         ELSE IF Matches(s, idx, TxtNegInfinity)
              THEN Scanned(PyFloat(TxtNegInfinity), idx + 9)
         ELSE MatchNumber(s, idx)

\* doc.count('\n', 0, pos)
CountNewlines(s, pos) == Cardinality({i \in 1..pos : s[i] = 10})

\* doc.rfind('\n', 0, pos)
LastNewline(s, pos) ==
    IF \A i \in 1..pos : s[i] # 10 THEN -1
    ELSE (CHOOSE i \in 1..pos : s[i] = 10 /\ \A j \in (i + 1)..pos : s[j] # 10) - 1

\* str(JSONDecodeError(msg, doc, pos))
JSONDecodeError(msg, doc, pos) ==
    msg \o MsgLine \o Decimal(CountNewlines(doc, pos) + 1)
        \o MsgColumn \o Decimal(pos - LastNewline(doc, pos))
        \o MsgChar \o Decimal(pos) \o <<41>>

\* json.loads(s) for a str s
json_loads(s) ==
    IF Len(s) > 0 /\ s[1] = 65279
    THEN Raise("JSONDecodeError", JSONDecodeError(MsgBom, s, 0))
    ELSE LET r == ScanOnce(s, SkipWs(s, 0))
             e == SkipWs(s, r.end)
         IN  IF ~r.ok THEN Raise("JSONDecodeError", JSONDecodeError(r.msg, s, r.end))
             ELSE IF e # Len(s)
                  THEN Raise("JSONDecodeError", JSONDecodeError(MsgExtraData, s, e))
             ELSE Ok(r.val)

(***************************************************************************)
(* json.dumps(value, indent=2), as called at lines 46 and 50               *)
(***************************************************************************)

RECURSIVE ToNat(_, _)
\* the number written with the decimal digits ds, after the value acc
ToNat(ds, acc) == IF ds = <<>> THEN acc ELSE ToNat(Tail(ds), acc * 10 + (Head(ds) - 48))

RECURSIVE StripLeadingZeros(_)
StripLeadingZeros(ds) ==
    IF ds # <<>> /\ Head(ds) = 48 THEN StripLeadingZeros(Tail(ds)) ELSE ds

RECURSIVE StripTrailingZeros(_)
StripTrailingZeros(ds) ==
    IF ds # <<>> /\ ds[Len(ds)] = 48
    THEN StripTrailingZeros(SubSeq(ds, 1, Len(ds) - 1)) ELSE ds

\* float.__repr__ of the float that a JSON number text denotes: the shortest
\* digits that give the float back, in positional notation when the decimal
\* point falls within -4 < decpt <= 16 and in exponent notation otherwise.
\* A text of at most 15 significant digits within the range of a double has
\* its own digits as the shortest ones; the texts met here are far shorter.
FloatRepr(text) ==
    LET neg   == text[1] = 45
        body  == IF neg THEN Tail(text) ELSE text
        epos  == IF \E i \in 1..Len(body) : body[i] \in {101, 69}
                 THEN CHOOSE i \in 1..Len(body) : body[i] \in {101, 69} ELSE Len(body) + 1
        mant  == SubSeq(body, 1, epos - 1)
        etext == SubSeq(body, epos + 1, Len(body))
        eneg  == etext # <<>> /\ etext[1] = 45
        edig  == IF etext # <<>> /\ etext[1] \in {45, 43} THEN Tail(etext) ELSE etext
        e     == IF eneg THEN 0 - ToNat(edig, 0) ELSE ToNat(edig, 0)
        ppos  == IF \E i \in 1..Len(mant) : mant[i] = 46
                 THEN CHOOSE i \in 1..Len(mant) : mant[i] = 46 ELSE Len(mant) + 1
        ipart == SubSeq(mant, 1, ppos - 1)
        fpart == SubSeq(mant, ppos + 1, Len(mant))
        all   == ipart \o fpart
        lead  == StripLeadingZeros(all)
        ds    == StripTrailingZeros(lead)
        decpt == Len(ipart) + e - (Len(all) - Len(lead))
        sign  == IF neg THEN <<45>> ELSE <<>>
        x     == decpt - 1
        xabs  == IF x < 0 THEN 0 - x ELSE x
    IN  IF text[1] \in {78, 73} \/ (neg /\ text[2] = 73) THEN text
        ELSE IF ds = <<>> THEN sign \o <<48, 46, 48>>
        ELSE IF decpt <= -4 \/ decpt > 16
             THEN sign \o <<ds[1]>>
                  \o (IF Len(ds) > 1 THEN <<46>> \o Tail(ds) ELSE <<>>)
                  \o <<101, IF x < 0 THEN 45 ELSE 43>>
                  \o (IF xabs < 10 THEN <<48>> ELSE <<>>) \o Decimal(xabs)
        ELSE IF decpt <= 0 THEN sign \o <<48, 46>> \o Repeat(48, 0 - decpt) \o ds
        ELSE IF decpt >= Len(ds)
             THEN sign \o ds \o Repeat(48, decpt - Len(ds)) \o <<46, 48>>
        ELSE sign \o SubSeq(ds, 1, decpt) \o <<46>> \o SubSeq(ds, decpt + 1, Len(ds))

\* \uXXXX
UEscape(u) == <<92, 117, HexDigit(u \div 4096), HexDigit((u \div 256) % 16),
                HexDigit((u \div 16) % 16), HexDigit(u % 16)>>

\* one character of a str as encode_basestring_ascii writes it
EscapeChar(c) ==
    CASE c = 34 -> <<92, 34>>
      [] c = 92 -> <<92, 92>>
      [] c = 10 -> <<92, 110>>
      [] c = 13 -> <<92, 114>>
      [] c = 9  -> <<92, 116>>
      [] c = 12 -> <<92, 102>>
      [] c = 8  -> <<92, 98>>
      [] OTHER ->
           IF c >= 32 /\ c <= 126 THEN <<c>>
           ELSE IF c < 65536 THEN UEscape(c)
           ELSE UEscape(55296 + ((c - 65536) \div 1024))
                \o UEscape(56320 + ((c - 65536) % 1024))

RECURSIVE EscapeAll(_, _, _)
\* the characters lo..hi of s, each as EscapeChar writes it (taken by halves)
EscapeAll(s, lo, hi) ==
    IF lo > hi THEN <<>>
    ELSE IF lo = hi THEN EscapeChar(s[lo])
    ELSE EscapeAll(s, lo, (lo + hi) \div 2) \o EscapeAll(s, (lo + hi) \div 2 + 1, hi)

\* the JSON text of a str: quoted, with every character outside ' '..'~',
\* the quote and the backslash escaped
encode_basestring_ascii(s) == <<34>> \o EscapeAll(s, 1, Len(s)) \o <<34>>

\* a newline followed by the indentation of the given nesting level
NewlineIndent(level) == <<10>> \o Repeat(32, 2 * level)

RECURSIVE Dumps(_, _)
RECURSIVE DumpItems(_, _, _)

\* the members of a list or a dict from the n-th on, each on its own line
DumpItems(vs, n, level) ==
    IF n > Len(vs) THEN <<>>
    ELSE NewlineIndent(level)
         \o (IF vs[n].t = "entry"
             THEN encode_basestring_ascii(vs[n].s) \o <<58, 32>>
                  \o Dumps(vs[n].items[1], level)
             ELSE Dumps(vs[n], level))
         \o (IF n < Len(vs) THEN <<44>> ELSE <<>>)
         \o DumpItems(vs, n + 1, level)

\* the text of the value v written at the nesting level
Dumps(v, level) ==
    CASE v.t = "none"  -> TxtNull
      [] v.t = "true"  -> TxtTrue
      [] v.t = "false" -> TxtFalse
      [] v.t = "int"   -> v.s
      [] v.t = "float" -> FloatRepr(v.s)
      [] v.t = "str"   -> encode_basestring_ascii(v.s)
      [] v.t = "list"  ->
           IF v.items = <<>> THEN <<91, 93>>
           ELSE <<91>> \o DumpItems(v.items, 1, level + 1)
                \o NewlineIndent(level) \o <<93>>
      [] v.t = "dict"  ->
           IF v.items = <<>> THEN <<123, 125>>
           ELSE <<123>> \o DumpItems(v.items, 1, level + 1)
                \o NewlineIndent(level) \o <<125>>

\* json.dumps(v, indent=2)
json_dumps(v) == Dumps(v, 0)

(***************************************************************************)
(* The program                                                             *)
(***************************************************************************)

\* Error: No JWT token provided
MsgNoToken ==
    L(<<"E","r","r","o","r",":"," ","N","o"," ","J","W","T"," ","t","o","k","e","n",
        " ","p","r","o","v","i","d","e","d">>)
\* Error: Invalid JWT format. Expected 3 parts separated by dots.
MsgInvalidFormat ==
    L(<<"E","r","r","o","r",":"," ","I","n","v","a","l","i","d"," ","J","W","T"," ",
        "f","o","r","m","a","t","."," ","E","x","p","e","c","t","e","d"," ","3"," ",
        "p","a","r","t","s"," ","s","e","p","a","r","a","t","e","d"," ","b","y"," ",
        "d","o","t","s",".">>)
\* === JWT HEADER ===
TitleHeader ==
    L(<<"=","=","="," ","J","W","T"," ","H","E","A","D","E","R"," ","=","=","=">>)
\* === JWT PAYLOAD ===
TitlePayload ==
    L(<<"=","=","="," ","J","W","T"," ","P","A","Y","L","O","A","D"," ","=","=","=">>)
\* === JWT SIGNATURE ===
TitleSignature ==
    L(<<"=","=","="," ","J","W","T"," ","S","I","G","N","A","T","U","R","E"," ","=",
        "=","=">>)
\* Signature (base64url): 
SignaturePrefix ==
    L(<<"S","i","g","n","a","t","u","r","e"," ","(","b","a","s","e","6","4","u","r",
        "l",")",":"," ">>)
\* Note: Signature verification requires the secret key
NoteLine ==
    L(<<"N","o","t","e",":"," ","S","i","g","n","a","t","u","r","e"," ","v","e","r",
        "i","f","i","c","a","t","i","o","n"," ","r","e","q","u","i","r","e","s"," ",
        "t","h","e"," ","s","e","c","r","e","t"," ","k","e","y">>)
\* Error decoding: 
ErrorPrefix ==
    L(<<"E","r","r","o","r"," ","d","e","c","o","d","i","n","g",":"," ">>)
\* an except clause that names binascii.Error alone
CatchesBinasciiOnly(type) == type = "binascii.Error"

\* the exceptions that  except Exception  catches
Catches(type) == type \in {"ValueError", "binascii.Error", "UnicodeDecodeError",
                           "JSONDecodeError"}

\* line 14 with 3 in place of 4
PadCountOffByOne(n) == 3 - (n % 4)

\* the number of '=' that line 14 appends to a string of length n
PadCount(n) == 4 - (n % 4)

\* pad_base64(s)
pad_base64(s) == s \o Repeat(61, PadCount(Len(s)))

\* the characters that str.strip() removes
IsSpace(c) ==
    \/ c \in 9..13 \/ c \in 28..32 \/ c \in {133, 160, 5760}
    \/ c \in 8192..8202 \/ c \in {8232, 8233, 8239, 8287, 12288}

RECURSIVE LStrip(_)
LStrip(s) == IF s # <<>> /\ IsSpace(Head(s)) THEN LStrip(Tail(s)) ELSE s

RECURSIVE RStrip(_)
RStrip(s) ==
    IF s # <<>> /\ IsSpace(s[Len(s)]) THEN RStrip(SubSeq(s, 1, Len(s) - 1)) ELSE s

\* line 29 without the call of strip()
StripNotApplied(s) == s

\* s.strip()
strip(s) == RStrip(LStrip(s))

RECURSIVE split(_)
\* s.split('.'): the text before the first '.', then the fields of the rest
split(s) ==
    IF \A i \in 1..Len(s) : s[i] # 46 THEN <<s>>
    ELSE LET d == CHOOSE i \in 1..Len(s) : s[i] = 46 /\ \A j \in 1..(i - 1) : s[j] # 46
         IN  <<SubSeq(s, 1, d - 1)>> \o split(SubSeq(s, d + 1, Len(s)))

\* what print(text) adds to a stream
Write(stream, text) == stream \o text \o <<10>>

NoException == [type |-> "", msg |-> <<>>]

VARIABLES
    stdin,              \* the text that sys.stdin.read() returns (newlines translated)
    stdout, stderr,     \* the text written to each stream so far
    exit_status,        \* <<>> while the process runs, then <<status>>
    pc,                 \* main's position, the line about to run
    jwt_token, parts, header, payload, signature,
    header_decoded, payload_decoded,        \* main's locals
    dpc,                \* decode_jwt_part's position, "" when it is not running
    encoded_part, padded, decoded_bytes, decoded_str, e,    \* its locals
    retval,             \* the value it returned
    part,               \* which of main's segments encoded_part is (1, 2, 3)
    calls,              \* the calls made so far, each with the segment passed
    failed              \* the segments for which the except clause has run

vars == <<stdin, stdout, stderr, exit_status, pc, jwt_token, parts, header, payload,
          signature, header_decoded, payload_decoded, dpc, encoded_part, padded,
          decoded_bytes, decoded_str, e, retval, part, calls, failed>>

mainLocals == <<jwt_token, parts, header, payload, signature, header_decoded,
                payload_decoded>>
decodeLocals == <<encoded_part, padded, decoded_bytes, decoded_str, e>>
streams == <<stdout, stderr, exit_status>>

Call(fn, n) == [fn |-> fn, part |-> n]

(***************************************************************************)
(* decode_jwt_part, lines 16-25                                            *)
(***************************************************************************)

\* line 20: padded = pad_base64(encoded_part)
Pad ==
    /\ dpc = "L20"
    /\ padded' = pad_base64(encoded_part)
    /\ calls' = Append(calls, Call("pad_base64", part))
    /\ dpc' = "L21"
    /\ UNCHANGED <<stdin, streams, pc, mainLocals, encoded_part, decoded_bytes,
                   decoded_str, e, retval, part, failed>>

\* line 21: decoded_bytes = base64.urlsafe_b64decode(padded)
B64Decode ==
    /\ dpc = "L21"
    /\ LET r == urlsafe_b64decode(padded)
       IN  IF r.ok
           THEN /\ decoded_bytes' = r.val
                /\ dpc' = "L22"
                /\ e' = e
           ELSE /\ e' = [type |-> r.type, msg |-> r.err]
                /\ dpc' = "L24"
                /\ decoded_bytes' = decoded_bytes
    /\ UNCHANGED <<stdin, streams, pc, mainLocals, encoded_part, padded, decoded_str,
                   retval, part, calls, failed>>

\* line 22: decoded_str = decoded_bytes.decode('utf-8')
Utf8 ==
    /\ dpc = "L22"
    /\ LET r == utf8_decode(decoded_bytes)
       IN  IF r.ok
           THEN /\ decoded_str' = r.val
                /\ dpc' = "L23"
                /\ e' = e
           ELSE /\ e' = [type |-> r.type, msg |-> r.err]
                /\ dpc' = "L24"
                /\ decoded_str' = decoded_str
    /\ UNCHANGED <<stdin, streams, pc, mainLocals, encoded_part, padded, decoded_bytes,
                   retval, part, calls, failed>>

\* line 23: return json.loads(decoded_str)
JsonLoads ==
    /\ dpc = "L23"
    /\ LET r == json_loads(decoded_str)
       IN  IF r.ok
           THEN /\ retval' = r.val
                /\ dpc' = "return"
                /\ e' = e
           ELSE /\ e' = [type |-> r.type, msg |-> r.err]
                /\ dpc' = "L24"
                /\ retval' = retval
    /\ UNCHANGED <<stdin, streams, pc, mainLocals, encoded_part, padded, decoded_bytes,
                   decoded_str, part, calls, failed>>

\* lines 24-25: except Exception as e: return f"Error decoding: {e}"
\* (an exception the clause does not catch leaves main with a traceback on
\* standard error and the exit status 1)
Except ==
    /\ dpc = "L24"
    /\ failed' = failed \cup {part}
    /\ IF Catches(e.type)
       THEN /\ retval' = PyStr(ErrorPrefix \o e.msg)
            /\ dpc' = "return"
            /\ UNCHANGED <<pc, streams>>
       ELSE /\ stderr' = Write(stderr, e.msg)
            /\ exit_status' = <<1>>
            /\ pc' = "exited"
            /\ dpc' = ""
            /\ UNCHANGED <<retval, stdout>>
    /\ UNCHANGED <<stdin, mainLocals, decodeLocals, part, calls>>

(***************************************************************************)
(* main, lines 27-54                                                       *)
(***************************************************************************)

\* line 29: jwt_token = sys.stdin.read().strip()
Read ==
    /\ pc = "L29"
    /\ jwt_token' = strip(stdin)
    /\ pc' = "L31"
    /\ UNCHANGED <<stdin, streams, parts, header, payload, signature, header_decoded,
                   payload_decoded, dpc, decodeLocals, retval, part, calls, failed>>

\* line 31: if not jwt_token
CheckEmpty ==
    /\ pc = "L31"
    /\ pc' = IF jwt_token = <<>> THEN "L32" ELSE "L36"
    /\ UNCHANGED <<stdin, streams, mainLocals, dpc, decodeLocals, retval, part, calls, failed>>

\* line 32: print("Error: No JWT token provided", file=sys.stderr)
PrintNoToken ==
    /\ pc = "L32"
    /\ stderr' = Write(stderr, MsgNoToken)
    /\ pc' = "L33"
    /\ UNCHANGED <<stdin, stdout, exit_status, mainLocals, dpc, decodeLocals, retval,
                   part, calls, failed>>

\* lines 33 and 40: sys.exit(1)
Exit1 ==
    /\ pc \in {"L33", "L40"}
    /\ exit_status' = <<1>>
    /\ pc' = "exited"
    /\ UNCHANGED <<stdin, stdout, stderr, mainLocals, dpc, decodeLocals, retval, part,
                   calls, failed>>

\* line 36: parts = jwt_token.split('.')
Split ==
    /\ pc = "L36"
    /\ parts' = split(jwt_token)
    /\ pc' = "L38"
    /\ UNCHANGED <<stdin, streams, jwt_token, header, payload, signature,
                   header_decoded, payload_decoded, dpc, decodeLocals, retval, part,
                   calls, failed>>

\* line 38 with the test  len(parts) < 3
CheckPartsTooFew ==
    /\ pc = "L38"
    /\ pc' = IF Len(parts) < 3 THEN "L39" ELSE "L42"
    /\ UNCHANGED <<stdin, streams, mainLocals, dpc, decodeLocals, retval, part, calls, failed>>

\* line 38: if len(parts) != 3
CheckParts ==
    /\ pc = "L38"
    /\ pc' = IF Len(parts) # 3 THEN "L39" ELSE "L42"
    /\ UNCHANGED <<stdin, streams, mainLocals, dpc, decodeLocals, retval, part, calls, failed>>

\* line 39: print("Error: Invalid JWT format. ...", file=sys.stderr)
PrintInvalidFormat ==
    /\ pc = "L39"
    /\ stderr' = Write(stderr, MsgInvalidFormat)
    /\ pc' = "L40"
    /\ UNCHANGED <<stdin, stdout, exit_status, mainLocals, dpc, decodeLocals, retval,
                   part, calls, failed>>

\* line 42: header, payload, signature = parts
Unpack ==
    /\ pc = "L42"
    /\ header' = parts[1]
    /\ payload' = parts[2]
    /\ signature' = parts[3]
    /\ pc' = "L44"
    /\ UNCHANGED <<stdin, streams, jwt_token, parts, header_decoded, payload_decoded,
                   dpc, decodeLocals, retval, part, calls, failed>>

\* line 44: print("=== JWT HEADER ===")
PrintHeaderTitle ==
    /\ pc = "L44"
    /\ stdout' = Write(stdout, TitleHeader)
    /\ pc' = "L45"
    /\ UNCHANGED <<stdin, stderr, exit_status, mainLocals, dpc, decodeLocals, retval,
                   part, calls, failed>>

\* line 45, the call: decode_jwt_part(header)
CallDecodeHeader ==
    /\ pc = "L45" /\ dpc = ""
    /\ encoded_part' = header
    /\ part' = 1
    /\ calls' = Append(calls, Call("decode_jwt_part", 1))
    /\ dpc' = "L20"
    /\ UNCHANGED <<stdin, streams, pc, mainLocals, padded, decoded_bytes, decoded_str,
                   e, retval, failed>>

\* line 45, the assignment: header_decoded = <the value returned>
ReturnHeader ==
    /\ pc = "L45" /\ dpc = "return"
    /\ header_decoded' = retval
    /\ dpc' = ""
    /\ pc' = "L46"
    /\ UNCHANGED <<stdin, streams, jwt_token, parts, header, payload, signature,
                   payload_decoded, decodeLocals, retval, part, calls, failed>>

\* line 46 with an error string printed without json.dumps
PrintHeaderRawError ==
    /\ pc = "L46"
    /\ stdout' = Write(stdout, IF 1 \in failed THEN header_decoded.s
                                ELSE json_dumps(header_decoded))
    /\ pc' = "L48"
    /\ UNCHANGED <<stdin, stderr, exit_status, mainLocals, dpc, decodeLocals, retval,
                   part, calls, failed>>

\* line 46: print(json.dumps(header_decoded, indent=2))
PrintHeader ==
    /\ pc = "L46"
    /\ stdout' = Write(stdout, json_dumps(header_decoded))
    /\ pc' = "L48"
    /\ UNCHANGED <<stdin, stderr, exit_status, mainLocals, dpc, decodeLocals, retval,
                   part, calls, failed>>

\* line 48 without the "\n" that opens the title
PrintPayloadTitleNoBlank ==
    /\ pc = "L48"
    /\ stdout' = Write(stdout, TitlePayload)
    /\ pc' = "L49"
    /\ UNCHANGED <<stdin, stderr, exit_status, mainLocals, dpc, decodeLocals, retval,
                   part, calls, failed>>

\* line 48: print("\n=== JWT PAYLOAD ===")
PrintPayloadTitle ==
    /\ pc = "L48"
    /\ stdout' = Write(stdout, <<10>> \o TitlePayload)
    /\ pc' = "L49"
    /\ UNCHANGED <<stdin, stderr, exit_status, mainLocals, dpc, decodeLocals, retval,
                   part, calls, failed>>

\* line 49 with header passed in place of payload
CallDecodePayloadOfHeader ==
    /\ pc = "L49" /\ dpc = ""
    /\ encoded_part' = header
    /\ part' = 2
    /\ calls' = Append(calls, Call("decode_jwt_part", 2))
    /\ dpc' = "L20"
    /\ UNCHANGED <<stdin, streams, pc, mainLocals, padded, decoded_bytes, decoded_str,
                   e, retval, failed>>

\* line 49, the call: decode_jwt_part(payload)
CallDecodePayload ==
    /\ pc = "L49" /\ dpc = ""
    /\ encoded_part' = payload
    /\ part' = 2
    /\ calls' = Append(calls, Call("decode_jwt_part", 2))
    /\ dpc' = "L20"
    /\ UNCHANGED <<stdin, streams, pc, mainLocals, padded, decoded_bytes, decoded_str,
                   e, retval, failed>>

\* line 49, the assignment: payload_decoded = <the value returned>
ReturnPayload ==
    /\ pc = "L49" /\ dpc = "return"
    /\ payload_decoded' = retval
    /\ dpc' = ""
    /\ pc' = "L50"
    /\ UNCHANGED <<stdin, streams, jwt_token, parts, header, payload, signature,
                   header_decoded, decodeLocals, retval, part, calls, failed>>

\* line 50: print(json.dumps(payload_decoded, indent=2))
PrintPayload ==
    /\ pc = "L50"
    /\ stdout' = Write(stdout, json_dumps(payload_decoded))
    /\ pc' = "L52"
    /\ UNCHANGED <<stdin, stderr, exit_status, mainLocals, dpc, decodeLocals, retval,
                   part, calls, failed>>

\* line 52: print(f"\n=== JWT SIGNATURE ===")
PrintSignatureTitle ==
    /\ pc = "L52"
    /\ stdout' = Write(stdout, <<10>> \o TitleSignature)
    /\ pc' = "L53"
    /\ UNCHANGED <<stdin, stderr, exit_status, mainLocals, dpc, decodeLocals, retval,
                   part, calls, failed>>

\* line 53 with the signature padded like the other two segments
PrintSignaturePadded ==
    /\ pc = "L53"
    /\ stdout' = Write(stdout, SignaturePrefix \o pad_base64(signature))
    /\ pc' = "L54"
    /\ UNCHANGED <<stdin, stderr, exit_status, mainLocals, dpc, decodeLocals, retval,
                   part, calls, failed>>

\* line 53: print(f"Signature (base64url): {signature}")
PrintSignature ==
    /\ pc = "L53"
    /\ stdout' = Write(stdout, SignaturePrefix \o signature)
    /\ pc' = "L54"
    /\ UNCHANGED <<stdin, stderr, exit_status, mainLocals, dpc, decodeLocals, retval,
                   part, calls, failed>>

\* line 54: print("Note: Signature verification requires the secret key")
PrintNote ==
    /\ pc = "L54"
    /\ stdout' = Write(stdout, NoteLine)
    /\ pc' = "L55"
    /\ UNCHANGED <<stdin, stderr, exit_status, mainLocals, dpc, decodeLocals, retval,
                   part, calls, failed>>

\* main returns and the interpreter exits with the status 0
Exit0 ==
    /\ pc = "L55"
    /\ exit_status' = <<0>>
    /\ pc' = "exited"
    /\ UNCHANGED <<stdin, stdout, stderr, mainLocals, dpc, decodeLocals, retval, part,
                   calls, failed>>

(***************************************************************************)
(* The inputs                                                              *)
(***************************************************************************)

\* the longest input made of separators, blanks and one segment character
MaxLen == 5

\* the character of the base64url alphabet with the 6-bit value v
B64UrlChar(v) ==
    IF v < 26 THEN 65 + v ELSE IF v < 52 THEN 71 + v ELSE IF v < 62 THEN v - 4
    ELSE IF v = 62 THEN 45 ELSE 95

RECURSIVE B64UrlEncode(_)
\* the unpadded base64url encoding of the bytes b, the form a JWT carries
B64UrlEncode(b) ==
    IF Len(b) = 0 THEN <<>>
    ELSE IF Len(b) = 1
         THEN <<B64UrlChar(b[1] \div 4), B64UrlChar((b[1] % 4) * 16)>>
    ELSE IF Len(b) = 2
         THEN <<B64UrlChar(b[1] \div 4),
                B64UrlChar((b[1] % 4) * 16 + (b[2] \div 16)),
                B64UrlChar((b[2] % 16) * 4)>>
    ELSE <<B64UrlChar(b[1] \div 4),
           B64UrlChar((b[1] % 4) * 16 + (b[2] \div 16)),
           B64UrlChar((b[2] % 16) * 4 + (b[3] \div 64)),
           B64UrlChar(b[3] % 64)>>
         \o B64UrlEncode(SubSeq(b, 4, Len(b)))

\* the UTF-8 bytes of a character below U+10000
Utf8Bytes(c) ==
    IF c < 128 THEN <<c>>
    ELSE IF c < 2048 THEN <<192 + (c \div 64), 128 + (c % 64)>>
    ELSE <<224 + (c \div 4096), 128 + ((c \div 64) % 64), 128 + (c % 64)>>

RECURSIVE Utf8Encode(_, _, _)
\* the UTF-8 bytes of the characters lo..hi of s (taken by halves)
Utf8Encode(s, lo, hi) ==
    IF lo > hi THEN <<>>
    ELSE IF lo = hi THEN Utf8Bytes(s[lo])
    ELSE Utf8Encode(s, lo, (lo + hi) \div 2) \o Utf8Encode(s, (lo + hi) \div 2 + 1, hi)

RECURSIVE Lines(_)
\* the lines ls joined by newlines
Lines(ls) == IF Len(ls) = 1 THEN ls[1] ELSE ls[1] \o <<10>> \o Lines(Tail(ls))

\* JSON texts, each with its 2-space pretty-printed form
JsonSamples == {
    \* 1
    [text |-> L(<<"1">>),
     pretty |-> Lines(<<L(<<"1">>)>>)],
    \* {}
    [text |-> L(<<"{","}">>),
     pretty |-> Lines(<<L(<<"{","}">>)>>)],
    \* [1]
    [text |-> L(<<"[","1","]">>),
     pretty |-> Lines(<<L(<<"[">>),
                      L(<<" "," ","1">>),
                      L(<<"]">>)>>)],
    \* ""
    [text |-> L(<<"\"","\"">>),
     pretty |-> Lines(<<L(<<"\"","\"">>)>>)],
    \* {"alg":"HS256"}
    [text |-> L(<<"{","\"","a","l","g","\"",":","\"","H","S","2","5","6","\"","}">>),
     pretty |-> Lines(<<L(<<"{">>),
                      L(<<" "," ","\"","a","l","g","\"",":"," ","\"","H","S","2","5","6","\"">>),
                      L(<<"}">>)>>)],
    \* {"sub":"123"}
    [text |-> L(<<"{","\"","s","u","b","\"",":","\"","1","2","3","\"","}">>),
     pretty |-> Lines(<<L(<<"{">>),
                      L(<<" "," ","\"","s","u","b","\"",":"," ","\"","1","2","3","\"">>),
                      L(<<"}">>)>>)],
    \* "Error decoding: Incorrect padding"
    [text |-> L(<<"\"","E","r","r","o","r"," ","d","e","c","o","d","i","n","g",":"," ",
                  "I","n","c","o","r","r","e","c","t"," ","p","a","d","d","i","n","g",
                  "\"">>),
     pretty |-> Lines(<<L(<<"\"","E","r","r","o","r"," ","d","e","c","o","d","i","n","g",":"," ",
                             "I","n","c","o","r","r","e","c","t"," ","p","a","d","d","i","n","g",
                             "\"">>)>>)],
    \* {"a":[true,null]}
    [text |-> L(<<"{","\"","a","\"",":","[","t","r","u","e",",","n","u","l","l","]","}">>),
     pretty |-> Lines(<<L(<<"{">>),
                      L(<<" "," ","\"","a","\"",":"," ","[">>),
                      L(<<" "," "," "," ","t","r","u","e",",">>),
                      L(<<" "," "," "," ","n","u","l","l">>),
                      L(<<" "," ","]">>),
                      L(<<"}">>)>>)]
    }

\* the segment that carries a JSON text
SegmentOf(text) == B64UrlEncode(Utf8Encode(text, 1, Len(text)))

ValidSegments == {SegmentOf(v.text) : v \in JsonSamples}

\* segments that fail at one of the three stages, or carry padding already:
\* empty (no JSON value), "M" and "e30MQ" (one character more than a multiple
\* of 4), "ew" (the text "{"), "_w" (the byte 0xff), a non-ASCII character,
\* "!!" (no character of the alphabet), "MQ==" (the padded form of "MQ"),
\* "MQ!" (a quad left incomplete), "IlxxIg" (the text "\q" in quotes)
OtherSegments == {
    <<>>, L(<<"M">>), L(<<"e","3","0","M","Q">>), L(<<"e","w">>), L(<<"_","w">>),
    <<233>>, L(<<"!","!">>), L(<<"M","Q","=","=">>), L(<<"M","Q","!">>),
    L(<<"I","l","x","x","I","g">>)
    }

Segments == ValidSegments \cup OtherSegments

\* signature segments: empty, base64url text, text outside the alphabet with
\* an inner blank, a segment that would decode to JSON
Signatures == {
    <<>>, L(<<"a","b","c","1","2","3","s","i","g","n","a","t","u","r","e">>),
    L(<<"$","i","g"," ","=">>), L(<<"e","3","0">>)
    }

\* the blanks put around a token
Blanks == {<<<<>>, <<>>>>, <<<<>>, <<10>>>>, <<<<32>>, <<9, 10>>>>}

\* tokens of three segments
Tokens == {b[1] \o h \o <<46>> \o p \o <<46>> \o s \o b[2] :
              b \in Blanks, h \in Segments, p \in Segments, s \in Signatures}

\* every text of at most MaxLen characters made of '.', ' ', newline and 'M'
Shapes == UNION {[1..n -> {46, 32, 10, 77}] : n \in 0..MaxLen}

Inputs == Tokens \cup Shapes

Init ==
    /\ stdin \in Inputs
    /\ stdout = <<>>
    /\ stderr = <<>>
    /\ exit_status = <<>>
    /\ pc = "L29"
    /\ jwt_token = <<>>
    /\ parts = <<>>
    /\ header = <<>>
    /\ payload = <<>>
    /\ signature = <<>>
    /\ header_decoded = PyNone
    /\ payload_decoded = PyNone
    /\ dpc = ""
    /\ encoded_part = <<>>
    /\ padded = <<>>
    /\ decoded_bytes = <<>>
    /\ decoded_str = <<>>
    /\ e = NoException
    /\ retval = PyNone
    /\ part = 0
    /\ calls = <<>>
    /\ failed = {}

Next ==
    \/ Read
    \/ CheckEmpty
    \/ PrintNoToken
    \/ Exit1
    \/ Split
    \/ CheckParts
    \/ PrintInvalidFormat
    \/ Unpack
    \/ PrintHeaderTitle
    \/ CallDecodeHeader
    \/ ReturnHeader
    \/ PrintHeader
    \/ PrintPayloadTitle
    \/ CallDecodePayload
    \/ ReturnPayload
    \/ PrintPayload
    \/ PrintSignatureTitle
    \/ PrintSignature
    \/ PrintNote
    \/ Exit0
    \/ Pad
    \/ B64Decode
    \/ Utf8
    \/ JsonLoads
    \/ Except

Spec == Init /\ [][Next]_vars

(***************************************************************************)
(* Properties                                                              *)
(***************************************************************************)

\* the input holds no character but blanks (or nothing at all)
AllSpace(s) == \A i \in 1..Len(s) : IsSpace(s[i])

CountDots(s) == Cardinality({i \in 1..Len(s) : s[i] = 46})

\* the input without the blanks around it: from its first to its last
\* character that is not a blank
Trimmed(s) ==
    LET solid == {i \in 1..Len(s) : ~IsSpace(s[i])}
    IN  IF solid = {} THEN <<>>
        ELSE SubSeq(s, CHOOSE i \in solid : \A j \in solid : i <= j,
                       CHOOSE i \in solid : \A j \in solid : j <= i)

\* the n-th of the three segments of an input with exactly two dots
Segment(n) ==
    LET s  == Trimmed(stdin)
        d1 == CHOOSE i \in 1..Len(s) : s[i] = 46 /\ \A j \in 1..(i - 1) : s[j] # 46
        d2 == CHOOSE i \in 1..Len(s) : s[i] = 46 /\ \A j \in (i + 1)..Len(s) : s[j] # 46
    IN  CASE n = 1 -> SubSeq(s, 1, d1 - 1)
          [] n = 2 -> SubSeq(s, d1 + 1, d2 - 1)
          [] n = 3 -> SubSeq(s, d2 + 1, Len(s))

\* the input is not empty once trimmed and does not split into 3 segments
Malformed == ~AllSpace(stdin) /\ CountDots(stdin) # 2

\* the input splits into exactly 3 segments
ThreeSegments == CountDots(stdin) = 2

IsPrefix(p, s) == Len(p) <= Len(s) /\ SubSeq(s, 1, Len(p)) = p
IsSuffix(p, s) == Len(p) <= Len(s) /\ SubSeq(s, Len(s) - Len(p) + 1, Len(s)) = p

Exited == pc = "exited"

\* decode_jwt_part has been called for the n-th segment
Decoding(n) == \E i \in 1..Len(calls) : calls[i] = Call("decode_jwt_part", n)

\* the report of section 4.5 for a header text, a payload text and a signature
Report(hv, pv, sig) ==
    TitleHeader \o <<10>> \o hv \o <<10>>
    \o <<10>> \o TitlePayload \o <<10>> \o pv \o <<10>>
    \o <<10>> \o TitleSignature \o <<10>>
    \o SignaturePrefix \o sig \o <<10>>
    \o NoteLine \o <<10>>

\* the value decode_jwt_part returns, as a function of its argument alone
DecodedValue(seg) ==
    LET b == urlsafe_b64decode(pad_base64(seg))
        u == utf8_decode(b.val)
        j == json_loads(u.val)
    IN  IF ~b.ok THEN PyStr(ErrorPrefix \o b.err)
        ELSE IF ~u.ok THEN PyStr(ErrorPrefix \o u.err)
        ELSE IF ~j.ok THEN PyStr(ErrorPrefix \o j.err)
        ELSE j.val

\* the pretty-printed form of the JSON text that a valid segment carries
PrettyOf(seg) == (CHOOSE v \in JsonSamples : SegmentOf(v.text) = seg).pretty

RECURSIVE Backslashed(_, _, _)
\* the characters lo..hi of a printable ASCII text, with a backslash before
\* each quote and each backslash
Backslashed(s, lo, hi) ==
    IF lo > hi THEN <<>>
    ELSE IF lo = hi THEN (IF s[lo] \in {34, 92} THEN <<92, s[lo]>> ELSE <<s[lo]>>)
    ELSE Backslashed(s, lo, (lo + hi) \div 2) \o Backslashed(s, (lo + hi) \div 2 + 1, hi)

\* a printable ASCII text as a JSON string
Quoted(s) == <<34>> \o Backslashed(s, 1, Len(s)) \o <<34>>

\* the padding line 20 has run in the current call
Padded == dpc \in {"L21", "L22", "L23", "L24", "return"}

\* C1: pad_base64 appends exactly (4 - (len(s) mod 4)) mod 4 '=' characters
\* to its argument: none when the length is a multiple of 4, never 4.
C1_PadCount ==
    Padded =>
        padded = encoded_part \o Repeat(61, (4 - (Len(encoded_part) % 4)) % 4)

\* C2: a non-empty trimmed input that does not split into 3 segments ends
\* with the exit status 1 and the malformed-format diagnostic on standard
\* error; decode_jwt_part is never called and standard output stays empty.
C2_MalformedAborts ==
    Malformed =>
        /\ stdout = <<>>
        /\ calls = <<>>
        /\ stderr \in {<<>>, Write(<<>>, MsgInvalidFormat)}
        /\ (Exited => exit_status = <<1>> /\ stderr = Write(<<>>, MsgInvalidFormat))
        /\ (Exited \/ ENABLED Next)

C2_Witness ==
    /\ Exited /\ Malformed /\ CountDots(stdin) > 2
    /\ stderr = Write(<<>>, MsgInvalidFormat)

\* C3: an empty or blank-only input ends with the exit status 1 and the
\* empty-input diagnostic on standard error, and nothing else happens: the
\* input is not split, the malformed-format diagnostic is not written, no
\* segment is decoded, standard output stays empty.
C3_EmptyAborts ==
    AllSpace(stdin) =>
        /\ stdout = <<>>
        /\ calls = <<>>
        /\ parts = <<>>
        /\ pc \in {"L29", "L31", "L32", "L33", "exited"}
        /\ stderr \in {<<>>, Write(<<>>, MsgNoToken)}
        /\ (Exited => exit_status = <<1>> /\ stderr = Write(<<>>, MsgNoToken))
        /\ (Exited \/ ENABLED Next)

C3_Witness ==
    /\ Exited /\ AllSpace(stdin) /\ Len(stdin) > 1
    /\ stderr = Write(<<>>, MsgNoToken)

\* decode_jwt_part is at one of its three library calls, each of which
\* returns or raises
InLibraryCall == dpc \in {"L21", "L22", "L23"}

\* C4: an input of exactly 3 segments ends with the exit status 0 and the
\* whole report on standard output, whatever the decode outcome of the
\* header and of the payload; nothing is written to standard error.
C4_ThreeSegmentsExitZero ==
    ThreeSegments =>
        /\ stderr = <<>>
        /\ (Exited =>
              /\ exit_status = <<0>>
              /\ IsPrefix(Write(<<>>, TitleHeader), stdout)
              /\ IsSuffix(Write(Write(<<>>, SignaturePrefix \o Segment(3)), NoteLine),
                          stdout)
              /\ Decoding(1) /\ Decoding(2))
        /\ (Exited \/ InLibraryCall \/ ENABLED Next)

C4_Witness == Exited /\ ThreeSegments /\ failed = {1, 2} /\ exit_status = <<0>>

\* C5: header and payload are decoded independently: the value shown for
\* each is the value of its own segment alone, whatever happened to the
\* other, and no exception leaves decode_jwt_part.
C5_Independent ==
    ThreeSegments =>
        /\ (pc \in {"L46", "L48", "L49", "L50", "L52", "L53", "L54", "L55", "exited"}
              => header_decoded = DecodedValue(Segment(1)))
        /\ (pc \in {"L50", "L52", "L53", "L54", "L55", "exited"}
              => payload_decoded = DecodedValue(Segment(2)))
        /\ (Exited =>
              /\ exit_status = <<0>>
              /\ stdout = Report(json_dumps(DecodedValue(Segment(1))),
                                 json_dumps(DecodedValue(Segment(2))), Segment(3)))

C5_Witness ==
    /\ Exited /\ ThreeSegments /\ failed = {1}
    /\ payload_decoded.t = "dict" /\ payload_decoded.items # <<>>

\* C6: when header and payload are unpadded base64url encodings of JSON
\* texts, of length 0, 2 or 3 modulo 4, neither decoding fails and the run
\* prints the 2-space pretty-printed JSON of both and exits with 0.
C6_ValidTokenRendered ==
    (ThreeSegments /\ Segment(1) \in ValidSegments /\ Segment(2) \in ValidSegments) =>
        /\ failed = {}
        /\ e = NoException
        /\ exit_status # <<1>>
        /\ (Exited => stdout = Report(PrettyOf(Segment(1)), PrettyOf(Segment(2)),
                                      Segment(3)))

C6_Witness ==
    /\ Exited /\ ThreeSegments /\ exit_status = <<0>>
    /\ Segment(1) \in ValidSegments /\ Segment(2) \in ValidSegments
    /\ Len(Segment(1)) % 4 = 0 /\ Len(Segment(1)) > 0 /\ Len(Segment(2)) % 4 = 2

\* C7 as stated: the section of a segment that failed to decode shows the
\* characters 'Error decoding: <cause>' as they are, without quotation marks
\* and without JSON escaping.
C7_ErrorPrintedAsIs ==
    /\ (pc = "L48" /\ 1 \in failed
          => stdout = Write(Write(<<>>, TitleHeader), ErrorPrefix \o e.msg))
    /\ (pc = "L52" /\ 2 \in failed
          => IsSuffix(Write(<<10>>, ErrorPrefix \o e.msg), stdout))

\* C7 as amended: the section of a segment that failed to decode shows the
\* error string as json.dumps writes a str: 'Error decoding: <cause>' between
\* double quotes, its quotes and backslashes escaped; a segment that decodes
\* to a JSON string of the same text is shown the same way.
C7_ErrorPrintedAsJsonString ==
    /\ (pc = "L48" /\ 1 \in failed
          => stdout = Write(Write(<<>>, TitleHeader),
                            Quoted(ErrorPrefix \o e.msg)))
    /\ (pc = "L52" /\ 2 \in failed
          => IsSuffix(Write(<<10>>, Quoted(ErrorPrefix \o e.msg)),
                      stdout))
    /\ (pc = "L52" /\ failed = {1} /\ payload_decoded = header_decoded
          => stdout = Write(Write(Write(Write(<<>>, TitleHeader),
                                        Quoted(header_decoded.s)),
                                  <<10>> \o TitlePayload),
                            Quoted(header_decoded.s)))

C7_Witness ==
    /\ pc = "L48" /\ 1 \in failed
    /\ \E i \in 1..Len(e.msg) : e.msg[i] = 92

\* C8: the third segment is never passed to pad_base64 or decode_jwt_part
\* and is written unchanged after 'Signature (base64url): ', whatever it
\* holds and whatever the decode outcome of header and payload.
C8_SignatureVerbatim ==
    ThreeSegments =>
        /\ \A i \in 1..Len(calls) : calls[i].part \in {1, 2}
        /\ (pc \in {"L44", "L45", "L46", "L48", "L49", "L50", "L52", "L53", "L54", "L55",
                    "exited"} => signature = Segment(3))
        /\ (pc \in {"L54", "L55", "exited"}
              => IsSuffix(Write(<<>>, SignaturePrefix \o Segment(3))
                          \o (IF pc = "L54" THEN <<>> ELSE Write(<<>>, NoteLine)), stdout))

C8_Witness ==
    /\ Exited /\ ThreeSegments /\ failed # {}
    /\ \E i \in 1..Len(Segment(3)) : Segment(3)[i] = 32
    /\ Len(calls) = 4

\* C9: when the input split into 3 segments, standard output holds exactly,
\* in this order, the header title, the header value, a blank line, the
\* payload title, the payload value, a blank line, the signature title, the
\* signature line and the note; the header value is written before the
\* payload is decoded.
C9_ReportInOrder ==
    ThreeSegments =>
        /\ (Exited => stdout = Report(json_dumps(header_decoded),
                                      json_dumps(payload_decoded), signature))
        /\ (Decoding(2) => IsPrefix(Write(Write(<<>>, TitleHeader),
                                          json_dumps(header_decoded)), stdout))

C9_Witness ==
    /\ Exited /\ ThreeSegments /\ exit_status = <<0>>
    /\ header_decoded.t = "dict" /\ header_decoded.items # <<>>
    /\ failed = {2}

\* C10: padding is idempotent: padding a padded string appends nothing,
\* pad_base64(pad_base64(s)) = pad_base64(s).
C10_PadIdempotent ==
    Padded => pad_base64(padded) = padded

====
